---- MODULE Spec2Model ----
(***************************************************************************)
(* The incremental synchronisation engine of supernote-markdown            *)
(* (src/main.py): change detection, the persisted sync state, the local    *)
(* mirror, deletion reconciliation.                                        *)
(*                                                                         *)
(* Representation.                                                         *)
(*   - A path is the sequence of its components: os.path.join(folder,name) *)
(*     is Append(folder, name), os.path.basename is the last component,    *)
(*     the empty folder path "" is << >>.                                  *)
(*   - A file of the local file system is a record with a field st:        *)
(*     "absent", "data" (complete content of one remote version),          *)
(*     "partial" (opened for writing, not yet completely written) or       *)
(*     "unreadable" (exists, but open() for reading raises).               *)
(*   - A Sync Record is a TLA+ record; as in the JSON file a key may be    *)
(*     missing, and  "content_hash" \in DOMAIN r  is Python's              *)
(*     'content_hash' in r.                                                *)
(*   - md5 is modelled as an injection (Hash, get_file_hash).              *)
(***************************************************************************)
EXTENDS Integers, Sequences, FiniteSets, TLC

VARIABLES
    remote,         \* the remote collection: identifier -> entry (name, size, modifiedTime, parents)
    clock,          \* datetime.now(), at the resolution the model needs: the number of runs started
    mirror,         \* <target>/notes: path -> file
    disk,           \* <target>/sync_state.json
    quarantine,     \* <target>/.deleted: file name -> file
    artifacts,      \* the extraction directories under <target>/images and <target>/titles
    pc,             \* where sync_notes stands
    sync_state,     \* sync_notes' sync_state
    current_files,  \* sync_notes' current_files
    listing,        \* the entries of the remote listing no page has delivered yet
    more,           \* whether the while loop has another page to fetch
    page,           \* response["files"]: the entries of the fetched page still to be handled
    cur,            \* process_note_file's locals, and where save_sync_state returns to
    deleted_files,  \* cleanup_deleted_files' deleted_files still to be handled
    counts,         \* files_processed, files_skipped, deleted_count
    crashes,        \* how many times the process was killed
    changed,        \* whether the remote collection changed since the last run began
    h,              \* history of the run, for stating the properties
    probe,          \* harness of the pure function should_download_file: its inputs and result
    service,        \* the remote folders: what files().get returns or raises for a folder identifier
    folder_cache,   \* sync_notes' folder_cache
    lookups,        \* how many times this run has issued files().get for each folder identifier
    resolved,       \* the last call of get_folder_path: its argument, the cache it found, its result
    split           \* split_note.py: the notebook's page count, the split_page argument, the outcome

fsvars == <<mirror, disk, quarantine, artifacts>>
procvars == <<pc, sync_state, current_files, listing, more, page, cur, deleted_files, counts>>
envvars == <<remote, clock, crashes, changed>>
resvars == <<service, folder_cache, lookups, resolved>>
vars == <<remote, clock, mirror, disk, quarantine, artifacts, pc, sync_state, current_files,
          listing, more, page, cur, deleted_files, counts, crashes, changed, h, probe,
          service, folder_cache, lookups, resolved, split>>

----------------------------------------------------------------------------
(* Values *)

Sizes == {100, 200}
Times == {"T1", "T2"}

None == [kind |-> "None"]
Hash(c) == [kind |-> "md5", of |-> c]

NoFile == [st |-> "absent"]
Partial == [st |-> "partial"]
Unreadable == [st |-> "unreadable"]
Content(id, size, mtime) == [st |-> "data", id |-> id, size |-> size, mtime |-> mtime]

Get(r, k, default) == IF k \in DOMAIN r THEN r[k] ELSE default

Del_nothing(state, id) == state

Put(state, id, rec) == [i \in DOMAIN state \cup {id} |-> IF i = id THEN rec ELSE state[i]]
Del(state, id) == [i \in DOMAIN state \ {id} |-> state[i]]

exists(fs, path) == fs[path].st # "absent"

join(folder_path, name) == IF folder_path # << >> THEN Append(folder_path, name) ELSE <<name>>

get_file_hash(file_id, modified_time, size) == [kind |-> "md5", id |-> file_id, mtime |-> modified_time, size |-> size]

get_content_hash(fs, file_path) ==
    IF fs[file_path].st \in {"absent", "unreadable"} THEN None ELSE Hash(fs[file_path])

----------------------------------------------------------------------------
(* Change Detector *)

should_download_file_size_only(file_id, file_info, state, fs, folder_path, note_file_name) ==
    LET note_output_path == join(folder_path, note_file_name) IN
    IF ~exists(fs, note_output_path) THEN <<TRUE, "File does not exist locally">>
    ELSE IF file_id \notin DOMAIN state THEN <<TRUE, "No sync state found">>
    ELSE LET sync_info == state[file_id] IN
         IF Get(sync_info, "size", 0) # file_info.size
         THEN <<TRUE, "File modified on Google Drive">>
         ELSE IF "content_hash" \in DOMAIN sync_info
                 /\ get_content_hash(fs, note_output_path) # sync_info.content_hash
         THEN <<TRUE, "Local file content differs">>
         ELSE <<FALSE, "File is up to date">>

should_download_file_state_first(file_id, file_info, state, fs, folder_path, note_file_name) ==
    LET note_output_path == join(folder_path, note_file_name) IN
    IF file_id \notin DOMAIN state THEN <<TRUE, "No sync state found">>
    ELSE IF ~exists(fs, note_output_path) THEN <<TRUE, "File does not exist locally">>
    ELSE LET sync_info == state[file_id] IN
         IF Get(sync_info, "modified_time", "") # file_info.modified_time
            \/ Get(sync_info, "size", 0) # file_info.size
         THEN <<TRUE, "File modified on Google Drive">>
         ELSE IF "content_hash" \in DOMAIN sync_info
                 /\ get_content_hash(fs, note_output_path) # sync_info.content_hash
         THEN <<TRUE, "Local file content differs">>
         ELSE <<FALSE, "File is up to date">>

should_download_file(file_id, file_info, state, fs, folder_path, note_file_name) ==
    LET note_output_path == join(folder_path, note_file_name) IN
    IF ~exists(fs, note_output_path) THEN <<TRUE, "File does not exist locally">>
    ELSE IF file_id \notin DOMAIN state THEN <<TRUE, "No sync state found">>
    ELSE LET sync_info == state[file_id] IN
         IF Get(sync_info, "modified_time", "") # file_info.modified_time
            \/ Get(sync_info, "size", 0) # file_info.size
         THEN <<TRUE, "File modified on Google Drive">>
         ELSE IF "content_hash" \in DOMAIN sync_info
                 /\ get_content_hash(fs, note_output_path) # sync_info.content_hash
         THEN <<TRUE, "Local file content differs">>
         ELSE <<FALSE, "File is up to date">>

----------------------------------------------------------------------------
(* The universe of the model *)

MaxRuns == 2        \* runs of sync_notes started
MaxCrashes == 1     \* kills of the process
PageSize == 1       \* entries per page of the remote listing

Ids == {"e1", "e2"}

\* The remote folders: identifier -> what files().get returns for it.
Folders == [f \in {"fA"} |-> [name |-> "A", parents |-> << >>]]

\* The entries a remote identifier can be. Every name contains ".note", as the
\* listing query asks; "a.note.bak" does not end with it. e1 is a.note, which is
\* modified (T2), moved into folder A or renamed to a.note.bak; e2 is a second file
\* named a.note or b.note at the root.
Entry(name, modifiedTime, parents) ==
    [name |-> name, size |-> 100, modifiedTime |-> modifiedTime, parents |-> parents]

VariantsOf(id) ==
    IF id = "e1"
    THEN {Entry("a.note", "T1", << >>), Entry("a.note", "T2", << >>),
          Entry("a.note", "T1", <<"fA">>), Entry("a.note.bak", "T1", << >>)}
    ELSE {Entry("a.note", "T1", << >>), Entry("b.note", "T1", << >>)}

Variants == UNION {VariantsOf(id) : id \in Ids}

Remotes == UNION {{r \in [D -> Variants] : \A id \in D : r[id] \in VariantsOf(id)} : D \in SUBSET Ids}

endswith_note(name) == name \in {"a.note", "b.note"}

\* name.replace('.note', '')
replace_note(name) ==
    CASE name = "a.note" -> "a"
      [] name = "b.note" -> "b"
      [] name = "a.note.bak" -> "a.bak"

basename(path) == path[Len(path)]
dirname(path) == SubSeq(path, 1, Len(path) - 1)

IsPrefix(d, q) == Len(d) <= Len(q) /\ SubSeq(q, 1, Len(d)) = d

----------------------------------------------------------------------------
(* Folder Path Resolver: the parent chain walked upward, first parent only *)

RecursionLimit == 3     \* nested calls of get_folder_path the interpreter allows

FolderIds == {"fA", "fB"}

\* The remote folders of the engine's runs: the lookup of fA succeeds.
Drive == [folders |-> Folders, failing |-> {}]

NoLookups == [f \in FolderIds |-> 0]

\* lookups, the identifiers of the sequence issued counted in.
Issue(count, issued) ==
    [f \in DOMAIN count |-> count[f] + Cardinality({i \in DOMAIN issued : issued[i] = f})]

\* files().get(fileId=parent_id).execute() raises: the folder is on the failing list
\* (no permission, deleted) or unknown to the service.
lookup_raises(svc, parent_id) == parent_id \in svc.failing \/ parent_id \notin DOMAIN svc.folders

\* get_folder_path. The result: the path returned, the folder cache as the call leaves
\* it, and the lookups the call has issued, in order. depth is the number of calls
\* of get_folder_path on the stack below this one; a call beyond the interpreter's
\* limit raises RecursionError, inside the try block of its caller, whose except
\* clause handles it as it handles a failed lookup.
last_parent(file_parents) == file_parents[Len(file_parents)]

\* file_parents[0]: of several parents the first is the one followed.
first_parent(file_parents) == file_parents[1]

RECURSIVE get_folder_path(_, _, _, _)
get_folder_path(file_parents, svc, cache, depth) ==
    IF depth > RecursionLimit
    THEN [path |-> << >>, cache |-> cache, lookups |-> << >>, raised |-> TRUE]
    ELSE IF file_parents = << >>
    THEN [path |-> << >>, cache |-> cache, lookups |-> << >>, raised |-> FALSE]
    ELSE LET parent_id == first_parent(file_parents) IN
         IF parent_id \in DOMAIN cache
         THEN [path |-> cache[parent_id], cache |-> cache, lookups |-> << >>, raised |-> FALSE]
         ELSE IF lookup_raises(svc, parent_id)
         THEN [path |-> << >>, cache |-> Put(cache, parent_id, << >>),
               lookups |-> <<parent_id>>, raised |-> FALSE]
         ELSE LET parent == svc.folders[parent_id]
                  up == get_folder_path(parent.parents, svc, cache, depth + 1)
                  full_path == IF up.path # << >> THEN Append(up.path, parent.name)
                               ELSE <<parent.name>>
              IN  IF up.raised
                  THEN [path |-> << >>, cache |-> Put(up.cache, parent_id, << >>),
                        lookups |-> <<parent_id>>, raised |-> FALSE]
                  ELSE [path |-> full_path, cache |-> Put(up.cache, parent_id, full_path),
                        lookups |-> <<parent_id>> \o up.lookups, raised |-> FALSE]

Paths == {join(get_folder_path(v.parents, Drive, << >>, 0).path, v.name) : v \in Variants}

----------------------------------------------------------------------------
(* Sync State Store *)

Missing == [st |-> "missing"]
Truncated == [st |-> "truncated"]
Saved(state) == [st |-> "ok", data |-> state]

\* load_sync_state: the file's mapping, {} when there is no file; json.load raises on
\* a file that holds no complete JSON document.
load_raises(file) == file.st = "truncated"
load_sync_state(file) == IF file.st = "ok" THEN file.data ELSE << >>

----------------------------------------------------------------------------
(* Downstream Invalidator and quarantine *)

extraction_dir(root, relative_path) ==
    <<root>> \o dirname(relative_path) \o <<replace_note(basename(relative_path))>>

\* shutil.rmtree of the two extraction directories of relative_path: each goes with
\* everything below it.
cleanup_extractions_for_file(relative_path, dirs) ==
    {d \in dirs : ~IsPrefix(extraction_dir("images", relative_path), d)
                  /\ ~IsPrefix(extraction_dir("titles", relative_path), d)}

deleted_name(file_path, timestamp) == <<timestamp, basename(file_path)>>

\* move_to_deleted: shutil.move(file_path, deleted_path) when file_path exists. The
\* notes tree and the quarantine directory after it.
move_to_deleted_unlink(file_path, timestamp, fs, deleted_dir) ==
    IF exists(fs, file_path)
    THEN [notes |-> [fs EXCEPT ![file_path] = NoFile], deleted |-> deleted_dir]
    ELSE [notes |-> fs, deleted |-> deleted_dir]

move_to_deleted(file_path, timestamp, fs, deleted_dir) ==
    IF exists(fs, file_path)
    THEN [notes |-> [fs EXCEPT ![file_path] = NoFile],
          deleted |-> [n \in DOMAIN deleted_dir \cup {deleted_name(file_path, timestamp)} |->
                         IF n = deleted_name(file_path, timestamp)
                         THEN fs[file_path] ELSE deleted_dir[n]]]
    ELSE [notes |-> fs, deleted |-> deleted_dir]

record_relative_path(info) == Get(info, "relative_path", <<info.name>>)

----------------------------------------------------------------------------
(* The state before the first run *)

NoCur == [ret |-> ""]
NoCounts == [files_processed |-> 0, files_skipped |-> 0, deleted_count |-> 0]
NoHistory ==
    [loaded |-> << >>,          \* the state load_sync_state returned
     observed |-> {},           \* the listed entries that are note files, all pages
     downloaded |-> {},         \* identifiers whose file this run copied into the mirror
     cleanups |-> 0,            \* calls of cleanup_deleted_files in this run
     quarantine |-> << >>,      \* the quarantine directory as the run found it
     removed |-> {},            \* identifiers whose record this run deleted
     retired |-> {},            \* what cleanup_deleted_files retired: id, path, the file that was there
     cause |-> "",              \* why the run aborted
     consecutive |-> FALSE,     \* the run follows a completed run, the remote unchanged
     previous |-> Missing,      \* the state file as the previous run left it
     fresh |-> FALSE,           \* the run began with no state file and an empty mirror
     between |-> FALSE,         \* the run was killed between two entries
     boundary |-> FALSE,        \* the run restarts one killed between two entries
     saved |-> {}]              \* the entries that run had processed when it was killed

NoProbe == [in |-> [file_info |-> [size |-> 100, modified_time |-> "T1"],
                    sync_state |-> << >>, file |-> NoFile],
            called |-> TRUE, out |-> <<FALSE, "not called">>]

NoResolved == [called |-> FALSE, n |-> 0, file_parents |-> << >>, path |-> << >>,
               issued |-> << >>]

NoSplit == [total_pages |-> 0, split_page |-> 0, done |-> TRUE, status |-> "not run",
            part1 |-> << >>, part2 |-> << >>]

EmptyMirror == [p \in Paths |-> NoFile]

\* A record as an earlier version of the program wrote it: metadata only (the code
\* reads content_hash, relative_path and last_synced as optional keys).
LegacyRecord == [hash |-> get_file_hash("e1", "T1", 100), name |-> "a.note",
                 size |-> 100, modified_time |-> "T1"]

Idle ==
    /\ clock = 0
    /\ quarantine = << >>
    /\ artifacts = {}
    /\ pc = "idle"
    /\ sync_state = << >>
    /\ current_files = {}
    /\ listing = << >>
    /\ more = FALSE
    /\ page = << >>
    /\ cur = NoCur
    /\ deleted_files = {}
    /\ counts = NoCounts
    /\ crashes = 0
    /\ changed = TRUE
    /\ h = NoHistory
    /\ folder_cache = << >>
    /\ lookups = NoLookups
    /\ resolved = NoResolved

\* A new mirror, or the mirror of an earlier version holding e1's a.note.
Init ==
    /\ Idle
    /\ remote \in Remotes
    /\ \/ mirror = EmptyMirror /\ disk = Missing
       \/ /\ mirror = [EmptyMirror EXCEPT ![<<"a.note">>] = Content("e1", 100, "T1")]
          /\ disk = Saved([i \in {"e1"} |-> LegacyRecord])
    /\ probe = NoProbe
    /\ service = Drive
    /\ split = NoSplit

----------------------------------------------------------------------------
(* sync_notes *)

Running == pc \in {"list", "files", "download", "copy", "copying", "save", "saving", "cleanup"}

Min(a, b) == IF a <= b THEN a ELSE b

ListEntry(id) ==
    [id |-> id, name |-> remote[id].name, size |-> remote[id].size,
     modifiedTime |-> remote[id].modifiedTime, parents |-> remote[id].parents]

\* The orders in which files().list can deliver the collection.
Listings ==
    LET D == DOMAIN remote
        n == Cardinality(D)
    IN  {[k \in 1..n |-> ListEntry(s[k])] :
            s \in {t \in [1..n -> D] : \A i, j \in 1..n : i # j => t[i] # t[j]}}

\* The filter of the for loop: the entry has a size and its name ends with ".note".
is_note_file(file) == "size" \in DOMAIN file /\ endswith_note(file.name)

StartRun ==
    /\ ~Running
    /\ clock < MaxRuns
    /\ clock' = clock + 1
    /\ changed' = FALSE
    /\ current_files' = {}
    /\ page' = << >>
    /\ cur' = NoCur
    /\ deleted_files' = {}
    /\ counts' = NoCounts
    /\ folder_cache' = << >>
    /\ lookups' = NoLookups
    /\ IF load_raises(disk)
       THEN /\ pc' = "aborted"
            /\ sync_state' = << >>
            /\ listing' = << >>
            /\ more' = FALSE
            /\ h' = [NoHistory EXCEPT !.cause = "load", !.previous = disk,
                                      !.quarantine = quarantine]
       ELSE /\ pc' = "list"
            /\ sync_state' = load_sync_state(disk)
            /\ listing' \in Listings
            /\ more' = TRUE
            /\ h' = [NoHistory EXCEPT
                        !.loaded = load_sync_state(disk),
                        !.observed = {id \in DOMAIN remote : is_note_file(ListEntry(id))},
                        !.consecutive = (pc = "done" /\ ~changed),
                        !.previous = disk,
                        !.quarantine = quarantine,
                        !.fresh = (disk = Missing /\ mirror = EmptyMirror),
                        !.boundary = (pc = "crashed" /\ h.between /\ ~changed),
                        !.saved = h.saved]
    /\ UNCHANGED <<remote, crashes, fsvars, probe, service, resolved, split>>

\* service.files().list(...).execute() returns the next page.
FetchPage ==
    /\ pc = "list"
    /\ LET k == Min(PageSize, Len(listing)) IN
       /\ page' = SubSeq(listing, 1, k)
       /\ listing' = SubSeq(listing, k + 1, Len(listing))
       /\ more' = (k < Len(listing))
    /\ pc' = "files"
    /\ UNCHANGED <<sync_state, current_files, cur, deleted_files, counts, envvars, fsvars, h, probe, resvars, split>>

ListFailSwallowed ==
    /\ pc = "list"
    /\ page' = << >>
    /\ more' = FALSE
    /\ pc' = "files"
    /\ UNCHANGED <<sync_state, current_files, listing, cur, deleted_files, counts,
                   envvars, fsvars, h, probe, resvars, split>>

\* service.files().list(...).execute() raises: nothing in sync_notes catches it.
ListFail ==
    /\ pc = "list"
    /\ pc' = "aborted"
    /\ h' = [h EXCEPT !.cause = "list"]
    /\ UNCHANGED <<sync_state, current_files, listing, more, page, cur, deleted_files, counts,
                   envvars, fsvars, probe, resvars, split>>

\* An entry of the page the for loop passes over.
IgnoreFile ==
    /\ pc = "files"
    /\ page # << >>
    /\ ~is_note_file(Head(page))
    /\ page' = Tail(page)
    /\ UNCHANGED <<pc, sync_state, current_files, listing, more, cur, deleted_files, counts,
                   envvars, fsvars, h, probe, resvars, split>>

skip_record(file, existing_info, folder_path, relative_path) ==
    [hash |-> get_file_hash(file.id, file.modifiedTime, file.size),
     content_hash |-> Get(existing_info, "content_hash", None),
     name |-> file.name,
     size |-> file.size,
     modified_time |-> file.modifiedTime,
     folder_path |-> folder_path,
     relative_path |-> relative_path,
     last_synced |-> Get(existing_info, "last_synced", clock)]

download_record(file, content_hash, folder_path, relative_path) ==
    [hash |-> get_file_hash(file.id, file.modifiedTime, file.size),
     content_hash |-> content_hash,
     name |-> file.name,
     size |-> file.size,
     modified_time |-> file.modifiedTime,
     folder_path |-> folder_path,
     relative_path |-> relative_path,
     last_synced |-> clock]

\* process_note_file up to its first write: the entry is noted in current_files, its
\* path resolved and the Change Detector asked; for a skip the record is rewritten,
\* for a download the extractions of a known identifier are removed.
ProcessFile ==
    /\ pc = "files"
    /\ page # << >>
    /\ is_note_file(Head(page))
    /\ LET file == Head(page)
           found == get_folder_path(file.parents, service, folder_cache, 0)
           folder_path == found.path
           relative_path == join(folder_path, file.name)
           file_info == [size |-> file.size, modified_time |-> file.modifiedTime]
           decision == should_download_file(file.id, file_info, sync_state, mirror,
                                            folder_path, file.name)
       IN  /\ current_files' = current_files \cup {file.id}
           /\ folder_cache' = found.cache
           /\ lookups' = Issue(lookups, found.lookups)
           /\ page' = Tail(page)
           /\ cur' = [file |-> file, folder_path |-> folder_path,
                      relative_path |-> relative_path, processed |-> decision[1],
                      ret |-> "files"]
           /\ IF ~decision[1]
              THEN /\ sync_state' = Put(sync_state, file.id,
                          skip_record(file, Get(sync_state, file.id, << >>),
                                      folder_path, relative_path))
                   /\ pc' = "save"
                   /\ UNCHANGED artifacts
              ELSE /\ artifacts' = IF file.id \in DOMAIN sync_state
                                   THEN cleanup_extractions_for_file(relative_path, artifacts)
                                   ELSE artifacts
                   /\ pc' = "download"
                   /\ UNCHANGED sync_state
    /\ UNCHANGED <<listing, more, deleted_files, counts, envvars, mirror, disk, quarantine,
                   h, probe, service, resolved, split>>

\* download_file has written the whole file to the temporary directory.
Download ==
    /\ pc = "download"
    /\ pc' = "copy"
    /\ UNCHANGED <<sync_state, current_files, listing, more, page, cur, deleted_files, counts,
                   envvars, fsvars, h, probe, resvars, split>>

\* download_file raises: nothing in process_note_file or sync_notes catches it.
DownloadFail ==
    /\ pc = "download"
    /\ pc' = "aborted"
    /\ h' = [h EXCEPT !.cause = "download"]
    /\ UNCHANGED <<sync_state, current_files, listing, more, page, cur, deleted_files, counts,
                   envvars, fsvars, probe, resvars, split>>

\* shutil.copy2 opens the destination for writing.
CopyOpen ==
    /\ pc = "copy"
    /\ mirror' = [mirror EXCEPT ![cur.relative_path] = Partial]
    /\ pc' = "copying"
    /\ UNCHANGED <<sync_state, current_files, listing, more, page, cur, deleted_files, counts,
                   envvars, disk, quarantine, artifacts, h, probe, resvars, split>>

\* shutil.copy2 completes; the content hash is taken and the record set in memory.
CopyDone ==
    /\ pc = "copying"
    /\ LET file == cur.file
           written == [mirror EXCEPT ![cur.relative_path] =
                          Content(file.id, file.size, file.modifiedTime)]
       IN  /\ mirror' = written
           /\ sync_state' = Put(sync_state, file.id,
                  download_record(file, get_content_hash(written, cur.relative_path),
                                  cur.folder_path, cur.relative_path))
           /\ h' = [h EXCEPT !.downloaded = @ \cup {file.id}]
    /\ pc' = "save"
    /\ UNCHANGED <<current_files, listing, more, page, cur, deleted_files, counts,
                   envvars, disk, quarantine, artifacts, probe, resvars, split>>

\* save_sync_state: open(sync_state_file, 'w') truncates the file.
SaveOpen ==
    /\ pc = "save"
    /\ disk' = Truncated
    /\ pc' = "saving"
    /\ UNCHANGED <<sync_state, current_files, listing, more, page, cur, deleted_files, counts,
                   envvars, mirror, quarantine, artifacts, h, probe, resvars, split>>

\* save_sync_state: json.dump has written the whole state and the file is closed.
\* Back in sync_notes: process_note_file's result is counted, or the summary printed.
SaveDone ==
    /\ pc = "saving"
    /\ disk' = Saved(sync_state)
    /\ pc' = cur.ret
    /\ counts' = IF cur.ret # "files" THEN counts
                 ELSE IF cur.processed THEN [counts EXCEPT !.files_processed = @ + 1]
                 ELSE [counts EXCEPT !.files_skipped = @ + 1]
    /\ cur' = NoCur
    /\ UNCHANGED <<sync_state, current_files, listing, more, page, deleted_files,
                   envvars, mirror, quarantine, artifacts, h, probe, resvars, split>>

\* The page is done and it came with a nextPageToken.
NextPage ==
    /\ pc = "files"
    /\ page = << >>
    /\ more
    /\ pc' = "list"
    /\ UNCHANGED <<sync_state, current_files, listing, more, page, cur, deleted_files, counts,
                   envvars, fsvars, h, probe, resvars, split>>

\* The last page is done: cleanup_deleted_files is called and takes deleted_files,
\* whose size is what it returns.
StartCleanup ==
    /\ pc = "files"
    /\ page = << >>
    /\ ~more
    /\ deleted_files' = DOMAIN sync_state \ current_files
    /\ counts' = [counts EXCEPT !.deleted_count = Cardinality(DOMAIN sync_state \ current_files)]
    /\ h' = [h EXCEPT !.cleanups = @ + 1]
    /\ pc' = "cleanup"
    /\ UNCHANGED <<sync_state, current_files, listing, more, page, cur, envvars, fsvars, probe, resvars, split>>

\* One round of cleanup_deleted_files' loop.
Retire ==
    /\ pc = "cleanup"
    /\ \E deleted_file_id \in deleted_files :
         LET deleted_file_info == sync_state[deleted_file_id]
             relative_path == record_relative_path(deleted_file_info)
             moved == move_to_deleted(relative_path, clock, mirror, quarantine)
         IN  /\ quarantine' = moved.deleted
             /\ mirror' = moved.notes
             /\ artifacts' = cleanup_extractions_for_file(relative_path, artifacts)
             /\ sync_state' = Del(sync_state, deleted_file_id)
             /\ deleted_files' = deleted_files \ {deleted_file_id}
             /\ h' = [h EXCEPT
                      !.removed = @ \cup {deleted_file_id},
                      !.retired = @ \cup {[id |-> deleted_file_id, path |-> relative_path,
                                           had_file |-> exists(mirror, relative_path),
                                           file |-> mirror[relative_path]]}]
    /\ UNCHANGED <<pc, current_files, listing, more, page, cur, counts, envvars, disk, probe, resvars, split>>

\* cleanup_deleted_files returns; sync_notes saves the state a last time.
EndCleanup ==
    /\ pc = "cleanup"
    /\ deleted_files = {}
    /\ cur' = [ret |-> "done"]
    /\ pc' = "save"
    /\ UNCHANGED <<sync_state, current_files, listing, more, page, deleted_files, counts,
                   envvars, fsvars, h, probe, resvars, split>>

\* The process is killed: what it held in memory is gone, the files stay as they are.
Crash ==
    /\ Running
    /\ crashes < MaxCrashes
    /\ crashes' = crashes + 1
    /\ pc' = "crashed"
    /\ sync_state' = << >>
    /\ current_files' = {}
    /\ listing' = << >>
    /\ more' = FALSE
    /\ page' = << >>
    /\ cur' = NoCur
    /\ deleted_files' = {}
    /\ counts' = NoCounts
    /\ h' = [NoHistory EXCEPT
                !.between = (h.fresh /\ pc \in {"files", "list"}),
                !.saved = IF pc \in {"files", "list"} THEN current_files ELSE {}]
    /\ folder_cache' = << >>
    /\ lookups' = NoLookups
    /\ UNCHANGED <<remote, clock, changed, fsvars, probe, service, resolved, split>>

----------------------------------------------------------------------------
(* The environment between two runs *)

\* The remote collection changes: entries are added, removed, modified, renamed, moved.
RemoteChange ==
    /\ ~Running
    /\ ~changed
    /\ clock < MaxRuns
    /\ remote' \in Remotes \ {remote}
    /\ changed' = TRUE
    /\ UNCHANGED <<clock, crashes, fsvars, procvars, h, probe, resvars, split>>

\* The user runs the extraction scripts on a note of the mirror, their output
\* directories being images/<folder>/<note name> and titles/<folder>/<note name>.
Extract ==
    /\ ~Running
    /\ clock < MaxRuns
    /\ \E p \in Paths :
         /\ mirror[p].st = "data"
         /\ extraction_dir("images", p) \notin artifacts
         /\ artifacts' = artifacts \cup {extraction_dir("images", p), extraction_dir("titles", p)}
    /\ UNCHANGED <<mirror, disk, quarantine, envvars, procvars, h, probe, resvars, split>>

Next ==
    \/ StartRun
    \/ FetchPage
    \/ ListFail
    \/ IgnoreFile
    \/ ProcessFile
    \/ Download
    \/ DownloadFail
    \/ CopyOpen
    \/ CopyDone
    \/ SaveOpen
    \/ SaveDone
    \/ NextPage
    \/ StartCleanup
    \/ Retire
    \/ EndCleanup
    \/ Crash
    \/ RemoteChange
    \/ Extract

Spec == Init /\ [][Next]_vars

----------------------------------------------------------------------------
(* should_download_file on its own: every combination of inputs for one     *)
(* identifier e1 named a.note at the mirror root.                           *)

ProbeId == "e1"
ProbeName == "a.note"
ProbePath == <<ProbeName>>

ProbeHashes == {None, Hash(Content(ProbeId, 100, "T1")), Hash(Content(ProbeId, 100, "T2"))}

\* The records the probe stores: metadata only, or with a content_hash entry.
ProbeRecords ==
    [name : {ProbeName}, size : Sizes, modified_time : Times]
    \cup [name : {ProbeName}, size : Sizes, modified_time : Times, content_hash : ProbeHashes]

ProbeStates == {<< >>} \cup {[i \in {ProbeId} |-> r] : r \in ProbeRecords}

ProbeFiles == {NoFile, Unreadable, Content(ProbeId, 100, "T1"), Content(ProbeId, 100, "T2")}

ProbeInputs == [file_info : [size : Sizes, modified_time : Times],
                sync_state : ProbeStates,
                file : ProbeFiles]

NoResult == <<FALSE, "not called">>

InitDecide ==
    /\ Idle
    /\ remote = << >>
    /\ mirror = EmptyMirror
    /\ disk = Missing
    /\ probe \in [in : ProbeInputs, called : {FALSE}, out : {NoResult}]
    /\ service = Drive
    /\ split = NoSplit

Decide ==
    /\ ~probe.called
    /\ probe' = [probe EXCEPT
           !.called = TRUE,
           !.out = should_download_file(ProbeId, probe.in.file_info, probe.in.sync_state,
                                        [p \in {ProbePath} |-> probe.in.file], << >>, ProbeName)]
    /\ UNCHANGED <<envvars, fsvars, procvars, h, resvars, split>>

NextDecide == Decide

SpecDecide == InitDecide /\ [][NextDecide]_vars

----------------------------------------------------------------------------
(* get_folder_path on its own: the resolutions of one run after another, over *)
(* every parent graph of two folders A and B, with lookups that fail.         *)

MaxEntries == 2     \* resolutions in one run

\* The parents lists of an entry or a folder: none, one, or two in either order.
ParentLists == {<< >>, <<"fA">>, <<"fB">>, <<"fA", "fB">>, <<"fB", "fA">>}

FolderName(f) == IF f = "fA" THEN "A" ELSE "B"

Services ==
    [folders : {g \in [FolderIds -> [name : {"A", "B"}, parents : ParentLists]] :
                   \A f \in FolderIds : g[f].name = FolderName(f)},
     failing : SUBSET FolderIds]

InitResolve ==
    /\ Idle
    /\ remote = << >>
    /\ mirror = EmptyMirror
    /\ disk = Missing
    /\ probe = NoProbe
    /\ service \in Services
    /\ split = NoSplit

\* sync_notes begins: folder_cache = {}.
BeginRun ==
    /\ clock < MaxRuns
    /\ clock' = clock + 1
    /\ pc' = "files"
    /\ folder_cache' = << >>
    /\ lookups' = NoLookups
    /\ resolved' = NoResolved
    /\ UNCHANGED <<remote, crashes, changed, fsvars, sync_state, current_files, listing, more,
                   page, cur, deleted_files, counts, h, probe, service, split>>

\* process_note_file resolves the folder of one entry, whose parents are file_parents.
ResolveEntry ==
    /\ pc = "files"
    /\ resolved.n < MaxEntries
    /\ \E file_parents \in ParentLists :
         LET found == get_folder_path(file_parents, service, folder_cache, 0) IN
         /\ folder_cache' = found.cache
         /\ lookups' = Issue(lookups, found.lookups)
         /\ resolved' = [called |-> TRUE, n |-> resolved.n + 1, file_parents |-> file_parents,
                         path |-> found.path, issued |-> found.lookups]
    /\ UNCHANGED <<envvars, fsvars, procvars, h, probe, service, split>>

NextResolve ==
    \/ BeginRun
    \/ ResolveEntry

SpecResolve == InitResolve /\ [][NextResolve]_vars

----------------------------------------------------------------------------
(* split_note.py: a notebook of total_pages pages split at the 1-based page   *)
(* split_page. Page i of the notebook is the number i; a note file is the     *)
(* sequence of its pages.                                                     *)

MaxPages == 8       \* pages of the notebook

\* The notebook sn.load_notebook returns.
Notebook(total_pages) == [i \in 1..total_pages |-> i]

Raised(what) == [raised |-> TRUE, error |-> what]

\* SubsetNotebook.__init__: the pages start_page .. end_page - 1 (0-based) of the
\* original notebook.
SubsetNotebook(original_notebook, start_page, end_page) ==
    IF ~(0 <= start_page /\ start_page <= end_page /\ end_page <= Len(original_notebook))
    THEN Raised("Invalid page range")
    ELSE [raised |-> FALSE, notebook |-> original_notebook, start_page |-> start_page,
          end_page |-> end_page, total_pages |-> end_page - start_page]

\* SubsetNotebook.get_page, page_num 0-based.
get_page(subset, page_num) == subset.notebook[page_num + subset.start_page + 1]

\* sn.reconstruct of a subset: its pages 0 .. get_total_pages() - 1, in order.
reconstruct(subset) == [i \in 1..subset.total_pages |-> get_page(subset, i - 1)]

split_notebook(notebook, split_page_index) ==
    LET total_pages == Len(notebook) IN
    IF ~(0 < split_page_index /\ split_page_index < total_pages)
    THEN Raised("Split page must be between 1 and total_pages - 1")
    ELSE [raised |-> FALSE,
          part1 |-> SubsetNotebook(notebook, 0, split_page_index),
          part2 |-> SubsetNotebook(notebook, split_page_index, total_pages)]

\* main of split_note.py from the loading of the notebook on: the range check of
\* split_page, the split, the two output files. An exception of the try block is
\* reported and the program exits with status 1.
split_note_main(total_pages, split_page) ==
    LET notebook == Notebook(total_pages)
        split_index == split_page - 1
        parts == split_notebook(notebook, split_index)
    IN  IF ~(0 < split_page /\ split_page <= total_pages)
        THEN [status |-> "rejected", part1 |-> << >>, part2 |-> << >>]
        ELSE IF parts.raised \/ parts.part1.raised \/ parts.part2.raised
        THEN [status |-> "error", part1 |-> << >>, part2 |-> << >>]
        ELSE [status |-> "ok", part1 |-> reconstruct(parts.part1),
              part2 |-> reconstruct(parts.part2)]

InitSplit ==
    /\ Idle
    /\ remote = << >>
    /\ mirror = EmptyMirror
    /\ disk = Missing
    /\ probe = NoProbe
    /\ service = Drive
    /\ split \in [total_pages : 0..MaxPages, split_page : -1..(MaxPages + 1), done : {FALSE},
                  status : {"not run"}, part1 : {<< >>}, part2 : {<< >>}]

SplitNote ==
    /\ ~split.done
    /\ LET out == split_note_main(split.total_pages, split.split_page) IN
       split' = [split EXCEPT !.done = TRUE, !.status = out.status,
                              !.part1 = out.part1, !.part2 = out.part2]
    /\ UNCHANGED <<envvars, fsvars, procvars, h, probe, resvars>>

NextSplit == SplitNote

SpecSplit == InitSplit /\ [][NextSplit]_vars

----------------------------------------------------------------------------
(* Claims about the Change Detector (SpecDecide) *)

PIn == probe.in
PHasFile == PIn.file.st # "absent"
PHasRecord == ProbeId \in DOMAIN PIn.sync_state
PRecord == PIn.sync_state[ProbeId]
PMetaDiffers == PRecord.size # PIn.file_info.size \/ PRecord.modified_time # PIn.file_info.modified_time
PHashStored == "content_hash" \in DOMAIN PRecord
PLocalHash == IF PIn.file.st = "data" THEN Hash(PIn.file) ELSE None

\* The reasons of the specification, as the code words them.
MissingLocally == "File does not exist locally"
Unseen == "No sync state found"
RemoteModified == "File modified on Google Drive"
LocalDrift == "Local file content differs"
UpToDate == "File is up to date"

\* C1: decide returns the outcome of the first matching rule, in the order: no local
\* file, no prior record, size or modifiedTime differs, stored content hash (a
\* content_hash entry of the record) differs from the recomputed one, otherwise skip;
\* a record {100, T1} against a listing {100, T2} with the file present is a download,
\* "remote modified".
C1_FirstMatchWins ==
    probe.called =>
        /\ (probe.out = <<TRUE, MissingLocally>>) <=> ~PHasFile
        /\ (probe.out = <<TRUE, Unseen>>) <=> (PHasFile /\ ~PHasRecord)
        /\ (probe.out = <<TRUE, RemoteModified>>) <=>
               (PHasFile /\ PHasRecord /\ PMetaDiffers)
        /\ (probe.out = <<TRUE, LocalDrift>>) <=>
               (PHasFile /\ PHasRecord /\ ~PMetaDiffers
                  /\ PHashStored /\ PRecord.content_hash # PLocalHash)
        /\ (probe.out = <<FALSE, UpToDate>>) <=>
               (PHasFile /\ PHasRecord /\ ~PMetaDiffers
                  /\ (PHashStored => PRecord.content_hash = PLocalHash))
        /\ (/\ PHasFile /\ PHasRecord
            /\ PRecord.size = 100 /\ PRecord.modified_time = "T1"
            /\ PIn.file_info = [size |-> 100, modified_time |-> "T2"])
           => probe.out = <<TRUE, RemoteModified>>

C1_Witness ==
    /\ probe.called
    /\ PHasFile /\ PHasRecord
    /\ PRecord.size = 100 /\ PRecord.modified_time = "T1"
    /\ PIn.file_info = [size |-> 100, modified_time |-> "T2"]
    /\ probe.out = <<TRUE, RemoteModified>>

\* C2 as claimed: with no prior record decide returns (true, "unseen") whatever the
\* other inputs are, a missing local file included.
C2_UnseenRegardless ==
    (probe.called /\ ~PHasRecord) => probe.out = <<TRUE, Unseen>>

\* C2 as amended: with no prior record decide always downloads; the reason is
\* "unseen" when a file is present at the resolved local path and "missing locally"
\* when none is, whatever the remote size and modified time are.
C2_UnseenAlwaysDownloads ==
    (probe.called /\ ~PHasRecord) =>
        probe.out = <<TRUE, IF PHasFile THEN Unseen ELSE MissingLocally>>

C2_Witness ==
    /\ probe.called /\ ~PHasRecord /\ ~PHasFile
    /\ probe.out = <<TRUE, MissingLocally>>

----------------------------------------------------------------------------
(* Claims about the engine (Spec) *)

\* The entry process_note_file is about to be called with.
AtEntry == pc = "files" /\ page # << >> /\ is_note_file(Head(page))
EntryFolder == get_folder_path(Head(page).parents, service, folder_cache, 0).path
EntryPath == join(EntryFolder, Head(page).name)
EntryDecision ==
    should_download_file(Head(page).id,
                         [size |-> Head(page).size, modified_time |-> Head(page).modifiedTime],
                         sync_state, mirror, EntryFolder, Head(page).name)

\* C3: an entry whose local file exists, whose size and modifiedTime equal the stored
\* record's and for which no content hash is stored is decided (false, "up to date"),
\* in every state a run can be in, the one a previous skip has written back included.
C3_SkipWithoutStoredHash ==
    (/\ AtEntry
     /\ exists(mirror, EntryPath)
     /\ Head(page).id \in DOMAIN sync_state
     /\ sync_state[Head(page).id].size = Head(page).size
     /\ sync_state[Head(page).id].modified_time = Head(page).modifiedTime
     /\ Get(sync_state[Head(page).id], "content_hash", None) = None)
    => EntryDecision = <<FALSE, UpToDate>>

StripLastSynced(state) ==
    [i \in DOMAIN state |-> [k \in DOMAIN state[i] \ {"last_synced"} |-> state[i][k]]]

\* C4: the second of two consecutive complete runs against an unchanged collection
\* downloads nothing and leaves the persisted state as the first left it, last_synced
\* apart.
C4_Idempotent ==
    (pc = "done" /\ h.consecutive) =>
        /\ h.downloaded = {}
        /\ StripLastSynced(load_sync_state(disk)) = StripLastSynced(load_sync_state(h.previous))

\* C5: a run that began with an empty state is killed between two entries, N of them
\* processed; the restarted run loads exactly those N records, downloads none of
\* them again, and downloads and records every other entry.
C5_CrashSafe ==
    h.boundary =>
        /\ DOMAIN h.loaded = h.saved
        /\ h.downloaded \cap h.saved = {}
        /\ pc = "done" =>
              /\ h.observed \ h.saved \subseteq h.downloaded
              /\ h.observed \subseteq DOMAIN load_sync_state(disk)

\* C6: wherever a run is interrupted, every identifier of the persisted state has its
\* file at its relative path, and every file a download placed in the mirror has a
\* record in the persisted state.
C6_StateMatchesMirror ==
    LET persisted == load_sync_state(disk) IN
    /\ \A id \in DOMAIN persisted : exists(mirror, record_relative_path(persisted[id]))
    /\ \A p \in Paths :
          mirror[p].st = "data" =>
             \E id \in DOMAIN persisted : record_relative_path(persisted[id]) = p

\* C7: a process killed during save_sync_state leaves the state file holding a
\* complete state, the previous one or the new one.
C7_AtomicSave ==
    pc = "crashed" => disk.st # "truncated"

\* C8: load_sync_state never fails its caller: no run aborts on loading the state.
C8_LoadNeverFails ==
    ~(pc = "aborted" /\ h.cause = "load")

Gone == DOMAIN h.loaded \ h.observed

\* C9: a completed run has, for every identifier with a record at its start and absent
\* from its listing, moved the file at the record's relative path into quarantine
\* under the name <timestamp>_<original file name>, removed the extraction directories
\* of that path, removed the record from the persisted state and counted it; the
\* records of listed identifiers are still there.
C9_DeletionRoundTrip ==
    pc = "done" =>
        /\ \A id \in Gone :
              LET info == h.loaded[id]
                  path == record_relative_path(info)
              IN  /\ id \notin DOMAIN load_sync_state(disk)
                  /\ ~exists(mirror, path)
                  /\ \E r \in h.retired :
                        /\ r.id = id /\ r.path = path
                        /\ r.had_file => <<clock, info.name>> \in DOMAIN quarantine
                  /\ extraction_dir("images", path) \notin artifacts
                  /\ extraction_dir("titles", path) \notin artifacts
        /\ counts.deleted_count = Cardinality(Gone)
        /\ h.observed \subseteq DOMAIN load_sync_state(disk)

C9_Witness ==
    /\ pc = "done"
    /\ \E r \in h.retired :
          /\ r.id \in Gone /\ r.had_file
          /\ <<clock, h.loaded[r.id].name>> \in DOMAIN quarantine
          /\ <<clock, h.loaded[r.id].name>> \notin DOMAIN h.quarantine
    /\ h.observed # {}

\* C10: cleanup_deleted_files runs at most once per run, and only when every page has
\* been fetched and every listed entry processed; a run that a failed page fetch
\* aborts has removed no record and moved no file to quarantine.
C10_ReconcileAfterFullListing ==
    /\ h.cleanups <= 1
    /\ h.cleanups = 1 =>
          /\ listing = << >> /\ ~more /\ page = << >>
          /\ pc \in {"cleanup", "save", "saving", "done"}
          /\ h.observed \subseteq current_files
    /\ (pc = "aborted" /\ h.cause = "list") =>
          /\ h.cleanups = 0
          /\ h.removed = {}
          /\ quarantine = h.quarantine
          /\ DOMAIN h.loaded \subseteq DOMAIN load_sync_state(disk)

C10_Witness ==
    /\ pc = "aborted" /\ h.cause = "list"
    /\ current_files # {}
    /\ DOMAIN h.loaded \ current_files # {}
    /\ quarantine = h.quarantine

\* C11: a failure of download_file for one entry does not abort the run: the entry is
\* passed over and the run goes on to the remaining entries, to reconciliation and
\* to its summary.
C11_FetchFailureContained ==
    h.cause = "download" => pc # "aborted"

\* C12: at no moment, a kill or a failure at any step included, does a final path of
\* the mirror hold a partially written file.
C12_NoPartialFile ==
    \A p \in Paths : mirror[p].st # "partial"

\* C13: the content of every file reconciliation has retired is in the quarantine
\* directory, and every file the run found in quarantine is still there, unchanged.
C13_QuarantineKeepsContent ==
    /\ \A r \in h.retired :
          r.had_file => \E n \in DOMAIN quarantine : quarantine[n] = r.file
    /\ \A n \in DOMAIN h.quarantine :
          n \in DOMAIN quarantine /\ quarantine[n] = h.quarantine[n]

\* C14: after a completed run the keys of the persisted state are exactly the
\* identifiers the run's enumeration observed.
C14_KeysAreObserved ==
    pc = "done" => DOMAIN load_sync_state(disk) = h.observed

C14_Witness ==
    /\ pc = "done"
    /\ Gone # {}
    /\ h.observed \ DOMAIN h.loaded # {}
    /\ DOMAIN load_sync_state(disk) = h.observed

\* C15: after a completed run every record of the persisted state has a file at its
\* relative path, two identifiers of the same name in the same folder included.
C15_RecordsHaveFiles ==
    pc = "done" =>
        \A id \in DOMAIN load_sync_state(disk) :
            exists(mirror, record_relative_path(load_sync_state(disk)[id]))

\* C20: whenever the file at a relative path of the mirror is overwritten or moved
\* away, the extraction directories of that path under images/ and titles/ are gone:
\* none made from the older version stands next to the new or missing file, whether
\* or not the identifier has a record.
C20_ExtractionsInvalidated ==
    [][\A p \in Paths :
          mirror'[p] # mirror[p] =>
             /\ extraction_dir("images", p) \notin artifacts'
             /\ extraction_dir("titles", p) \notin artifacts']_vars

\* The entry process_note_file has decided to skip, its record rewritten in memory
\* and not yet saved: the state file still holds the record as it was.
Skipping == pc = "save" /\ cur.ret = "files" /\ ~cur.processed

\* C21: a skip changes nothing of the entry's record but last_synced, which becomes
\* the current instant: every other field, the content hash included, is as it was.
C21_SkipRefreshesTimestamp ==
    Skipping =>
        LET new == sync_state[cur.file.id]
            old == load_sync_state(disk)[cur.file.id]
        IN  /\ new.last_synced = clock
            /\ DOMAIN new \ {"last_synced"} = DOMAIN old \ {"last_synced"}
            /\ \A k \in DOMAIN old \ {"last_synced"} : new[k] = old[k]

RecordFields == {"name", "size", "modified_time", "folder_path", "relative_path", "hash",
                 "last_synced"}

\* A state of the persisted contract: every record has exactly the fields of
\* RecordFields and optionally content_hash, its weak fingerprint ("hash") is that of
\* identifier, modified time and size, and a content_hash that is present is the
\* hash of a downloaded file.
WellFormed(state) ==
    \A id \in DOMAIN state :
        LET r == state[id] IN
        /\ DOMAIN r \ {"content_hash"} = RecordFields
        /\ r.hash = get_file_hash(id, r.modified_time, r.size)
        /\ "content_hash" \in DOMAIN r => r.content_hash # None

\* C22: every state save_sync_state writes is a state of the persisted contract.
C22_SavedStateShape ==
    [][(disk' # disk /\ disk'.st = "ok") => WellFormed(disk'.data)]_vars

\* cleanup_deleted_files has been called in this run and the run is not over.
Reconciled == pc = "cleanup" \/ pc = "done" \/ (pc \in {"save", "saving"} /\ cur.ret = "done")

\* C25: once reconciliation has begun, and after it, every identifier of the run's
\* listing still has the file at its relative path, whatever the relative paths of
\* the retired records are.
C25_LiveFilesSurvive ==
    Reconciled =>
        \A id \in h.observed :
            id \in DOMAIN sync_state => exists(mirror, record_relative_path(sync_state[id]))

\* The identifiers whose persisted record has the relative path p.
Owners(p) ==
    {id \in DOMAIN load_sync_state(disk) :
        record_relative_path(load_sync_state(disk)[id]) = p}

\* C26: after a completed run every file of the notes tree is the relative path of
\* exactly one record of the persisted state, and a path no record has, the old path
\* of a renamed or moved entry included, has no extraction directories.
C26_NoOrphans ==
    pc = "done" =>
        \A p \in Paths :
            /\ exists(mirror, p) => Cardinality(Owners(p)) = 1
            /\ Owners(p) = {} =>
                   /\ extraction_dir("images", p) \notin artifacts
                   /\ extraction_dir("titles", p) \notin artifacts

----------------------------------------------------------------------------
(* Claims about the Folder Path Resolver (SpecResolve) *)

\* The chain of an entry: the folder identifiers met by following the first parent
\* upward, bottom-up, until a folder without parents or a folder met before.
RECURSIVE Chain(_, _, _)
Chain(file_parents, svc, seen) ==
    IF file_parents = << >> THEN [ids |-> << >>, cyclic |-> FALSE]
    ELSE IF file_parents[1] \in seen THEN [ids |-> << >>, cyclic |-> TRUE]
    ELSE LET up == Chain(svc.folders[file_parents[1]].parents, svc, seen \cup {file_parents[1]})
         IN  [ids |-> <<file_parents[1]>> \o up.ids, cyclic |-> up.cyclic]

ResolvedChain == Chain(resolved.file_parents, service, {})

\* The names of the chain's folders, the topmost first.
TopDown(ids, svc) == [i \in 1..Len(ids) |-> svc.folders[ids[Len(ids) + 1 - i]].name]

ChainFails == \E i \in DOMAIN ResolvedChain.ids : ResolvedChain.ids[i] \in service.failing

IssuedTimes(f) == Cardinality({i \in DOMAIN resolved.issued : resolved.issued[i] = f})

\* C16: get_folder_path follows the first parent at each level up to a folder without
\* parents and returns the folder names joined top-down: an entry in folder B, whose
\* first parent is A, A having none, resolves to A/B/<fileName>; an entry without
\* parents resolves to the empty path and <fileName>.
C16_FirstParentTopDown ==
    resolved.called =>
        /\ (~ResolvedChain.cyclic /\ ~ChainFails)
              => resolved.path = TopDown(ResolvedChain.ids, service)
        /\ (/\ resolved.file_parents # << >>
            /\ resolved.file_parents[1] = "fB"
            /\ service.folders["fB"].parents # << >>
            /\ service.folders["fB"].parents[1] = "fA"
            /\ service.folders["fA"].parents = << >>
            /\ service.failing = {})
              => join(resolved.path, "a.note") = <<"A", "B", "a.note">>
        /\ resolved.file_parents = << >>
              => resolved.path = << >> /\ join(resolved.path, "a.note") = <<"a.note">>

C16_Witness ==
    /\ resolved.called
    /\ resolved.file_parents = <<"fB", "fA">>
    /\ service.folders["fB"].parents = <<"fA", "fB">>
    /\ service.folders["fA"].parents = << >>
    /\ service.failing = {}
    /\ resolved.path = <<"A", "B">>

\* C17: within a run the lookup of a folder identifier is issued at most once, and
\* the folder cache holds the identifiers this run has looked up and no other: it
\* is empty when the run begins.
C17_OneLookupPerFolder ==
    /\ \A f \in FolderIds : lookups[f] <= 1
    /\ DOMAIN folder_cache = {f \in FolderIds : lookups[f] >= 1}

\* C18: when the lookup of a folder of the entry's chain fails, the immediate parent
\* or an ancestor further up, get_folder_path returns the empty path.
C18_FailureFallsToRoot ==
    (resolved.called /\ ~ResolvedChain.cyclic /\ ChainFails) => resolved.path = << >>

\* C19: on every parent graph get_folder_path issues at most one lookup per folder
\* identifier of the chain, and on a cyclic chain it returns the empty path.
C19_CycleGuard ==
    resolved.called =>
        /\ \A f \in FolderIds : IssuedTimes(f) <= 1
        /\ (ResolvedChain.cyclic /\ service.failing = {}) => resolved.path = << >>

----------------------------------------------------------------------------
(* Claims about split_note.py (SpecSplit) *)

Accepted == 1 <= split.split_page /\ split.split_page <= split.total_pages

\* C23: for every split_page main accepts, 1 <= p <= total_pages, the split succeeds:
\* the first output holds pages 1..p-1 in order, the second pages p..total_pages in
\* order with page p first, and together they hold every page exactly once.
C23_SplitAtAcceptedPage ==
    (split.done /\ Accepted) =>
        /\ split.status = "ok"
        /\ split.part1 = [i \in 1..(split.split_page - 1) |-> i]
        /\ split.part2 = [i \in 1..(split.total_pages - split.split_page + 1) |->
                                i + split.split_page - 1]
        /\ split.part2[1] = split.split_page
        /\ split.part1 \o split.part2 = Notebook(split.total_pages)

\* C24: a split at split_page = total_pages gives an empty second note: the first
\* output holds all the pages, the second none.
C24_SplitAtLastPage ==
    (split.done /\ Accepted /\ split.split_page = split.total_pages) =>
        /\ split.status = "ok"
        /\ split.part1 = Notebook(split.total_pages)
        /\ split.part2 = << >>

====
